---- MODULE Spec2Model ----
(***************************************************************************)
(* Model of streamlit_app.py: load_data() and one run of main().           *)
(*                                                                         *)
(* A Python dict is a TLA+ function whose DOMAIN is the set of keys that   *)
(* are present, so d.get(k, default) is Get(d, k, default).  A Python list *)
(* is a sequence.  The nested entities of the loaded document are the only *)
(* entity objects of a run: the flat lists of main() hold references to    *)
(* them (EntityRefs), never values, because list.append stores the object   *)
(* it is given.                                                            *)
(***************************************************************************)
EXTENDS Integers, Sequences, FiniteSets, TLC

VARIABLES
    pc,                   \* position of main()
    loaded,               \* what json.load returned, wrapped like data (history)
    data,                 \* main's data: <<>> for None, else <<document>>; the
                          \* document is mutated in place
    reported,             \* st.error / st.info messages of load_data
    ri,                   \* index of the next region_data of the loop at line 104
    all_instances, all_untagged, all_stopped, all_unused_volumes, all_unused_eips,
    metrics,              \* locals of lines 135-150
    missing_tags_analysis,\* line 245, {} until assigned
    views,                \* presentation state of tabs 2 and 3
    options,              \* option lists of the four selectboxes
    selected,             \* values returned by the four selectboxes
    filtered_instances,   \* line 379
    summary,              \* line 480
    df_regions            \* line 196, the sorted frame; <<>> until assigned

vars == <<pc, loaded, data, reported, df_regions, ri, all_instances, all_untagged, all_stopped,
          all_unused_volumes, all_unused_eips, metrics, missing_tags_analysis,
          views, options, selected, filtered_instances, summary>>

analysis_vars == <<df_regions, ri, all_instances, all_untagged, all_stopped, all_unused_volumes,
                   all_unused_eips, metrics, missing_tags_analysis, views,
                   options, selected, filtered_instances, summary>>

----------------------------------------------------------------------------
(* Python values *)

None == "<None>"
EmptyDict == <<>>
NA == "N/A"

\* d.get(k, default)
Get(d, k, default) == IF k \in DOMAIN d THEN d[k] ELSE default

\* d.get(k)
Get1(d, k) == Get(d, k, None)

\* d[k] = v
SetItem(d, k, v) == [x \in (DOMAIN d) \cup {k} |-> IF x = k THEN v ELSE d[x]]

\* set(s)
ToSet(s) == {s[i] : i \in 1..Len(s)}

----------------------------------------------------------------------------
(* Lines 98-130: the five flat lists *)

\* the five (key, sub-key) pairs read at lines 108, 113, 118, 123, 128
InstancesColl == [coll |-> "instances", sub |-> "details"]
UntaggedColl == [coll |-> "untagged_resources", sub |-> "instances"]
StoppedColl == [coll |-> "stopped_instances", sub |-> "details"]
VolumesColl == [coll |-> "unused_volumes", sub |-> "details"]
EipsColl == [coll |-> "unused_eips", sub |-> "details"]

\* data.get('regions', [])
Regions(d) == Get(d, "regions", <<>>)

\* region_data.get('region', 'unknown')
RegionOf(region_data) == Get(region_data, "region", "unknown")

\* region_data.get(coll, {}).get(sub, [])
Entities(region_data, c) == Get(Get(region_data, c.coll, EmptyDict), c.sub, <<>>)

\* the objects the loop variable of one inner loop is bound to, in order
EntityRefs(r, c, region_data) ==
    [j \in 1..Len(Entities(region_data, c)) |-> [r |-> r, coll |-> c.coll, sub |-> c.sub, i |-> j]]

\* the object a reference points to
Deref(d, ref) == d["regions"][ref.r][ref.coll][ref.sub][ref.i]

\* instance['region'] = region, for every entity of one inner loop
\* (variant: instance.setdefault('region', region), an existing field is kept)
TagEntitiesSetDefault(region_data, c, region) ==
    IF Entities(region_data, c) = <<>> THEN region_data
    ELSE [region_data EXCEPT ![c.coll][c.sub] =
             [j \in 1..Len(@) |-> SetItem(@[j], "region", Get(@[j], "region", region))]]
TagEntities(region_data, c, region) ==
    IF Entities(region_data, c) = <<>> THEN region_data
    ELSE [region_data EXCEPT ![c.coll][c.sub] =
             [j \in 1..Len(@) |-> SetItem(@[j], "region", region)]]

\* all_xxx.append(entity), for every entity of one inner loop
\* (variant: the region's entities are put in front of the list)
AppendAllReversed(flat, refs) == refs \o flat
AppendAll(flat, refs) == flat \o refs

----------------------------------------------------------------------------
(* Lines 135-151 and 241-345: metrics, tagging compliance, cost optimization *)

\* len([i for i in all_instances if i.get('state') == 'running'])
\* (variant: every instance that is not stopped counts as running)
CountRunningNotStopped(doc, refs) ==
    Len(SelectSeq(refs, LAMBDA ref : Get1(Deref(doc, ref), "state") # "stopped"))
CountRunning(doc, refs) ==
    Len(SelectSeq(refs, LAMBDA ref : Get1(Deref(doc, ref), "state") = "running"))

\* stopped_instances + unused_volumes_count + unused_eips_count
\* (variant: the elastic IPs are left out of the score)
CostRisksWithoutEips(stopped, volumes, eips) == stopped + volumes
CostRisks(stopped, volumes, eips) == stopped + volumes + eips

\* 'X' not in tags or tags.get('X') == 'N/A'
TagMissing(tags, key) == key \notin DOMAIN tags \/ Get1(tags, key) = NA

\* the bucket names of line 245 and the tag each one tests
BucketTag == [Sem_Name |-> "Name", Sem_Owner |-> "owner",
              Sem_CostCenter |-> "CostCenter", Sem_Environment |-> "Environment"]

\* the loop of lines 252-261
MissingTagsAnalysis(doc, refs) ==
    [b \in DOMAIN BucketTag |->
        SelectSeq(refs, LAMBDA ref :
            TagMissing(Get(Deref(doc, ref), "tags", EmptyDict), BucketTag[b]))]

\* sum(v.get('size', 0) for v in all_unused_volumes)
RECURSIVE TotalSize(_, _)
TotalSize(doc, refs) ==
    IF refs = <<>> THEN 0
    ELSE Get(Deref(doc, Head(refs)), "size", 0) + TotalSize(doc, Tail(refs))

\* st.warning(count) if the list is non-empty else st.success
CountView(refs) ==
    IF refs # <<>> THEN [state |-> "warning", count |-> Len(refs)]
    ELSE [state |-> "success"]

\* lines 316-330
VolumesView(doc, refs) ==
    IF refs # <<>>
    THEN [state |-> "warning", count |-> Len(refs), total_size |-> TotalSize(doc, refs)]
    ELSE [state |-> "success"]

----------------------------------------------------------------------------
(* Lines 173-196: the per-region frame of tab 1 *)

\* the keys of region_stats in insertion order: a key keeps the place of its
\* first assignment (line 177)
RECURSIVE RegionKeys(_, _)
RegionKeys(regions, n) ==
    IF n = 0 THEN <<>>
    ELSE LET before == RegionKeys(regions, n - 1)
             region == RegionOf(regions[n])
         IN IF region \in ToSet(before) THEN before ELSE Append(before, region)

\* region_stats[region] after the loop: the last assignment to the key stays
StatsOf(regions, region) ==
    LET last == CHOOSE n \in 1..Len(regions) :
                    /\ RegionOf(regions[n]) = region
                    /\ \A m \in (n + 1)..Len(regions) : RegionOf(regions[m]) # region
        instances == Get(regions[last], "instances", EmptyDict)
    IN [running |-> Get(instances, "running", 0),
        stopped |-> Get(instances, "stopped", 0),
        total |-> Get(instances, "total", 0)]

\* lines 185-193: one row per key of region_stats
RegionRows(regions) ==
    LET keys == RegionKeys(regions, Len(regions))
    IN [j \in 1..Len(keys) |->
          [Regiao |-> keys[j],
           Em_Execucao |-> StatsOf(regions, keys[j]).running,
           Paradas |-> StatsOf(regions, keys[j]).stopped,
           Total |-> StatsOf(regions, keys[j]).total]]

\* df.sort_values('Total', ascending=False): the default kind is quicksort,
\* which promises no order among rows of equal Total, so every arrangement of
\* the rows with non-increasing Total is an outcome
SortValuesTotalDescending(rows) ==
    LET n == Len(rows)
        perms == {p \in [1..n -> 1..n] : \A a, b \in 1..n : a # b => p[a] # p[b]}
    IN {[j \in 1..n |-> rows[p[j]]] :
          p \in {q \in perms : \A j \in 1..(n - 1) : rows[q[j]].Total >= rows[q[j + 1]].Total}}

----------------------------------------------------------------------------
(* Lines 355-387: the four selectboxes and the filters *)

\* set(inst.get(key) for inst in all_instances if inst.get(key) != 'N/A')
DistinctValues(doc, refs, key) ==
    {Get1(Deref(doc, ref), key) : ref \in ToSet(refs)} \ {NA}

Options(doc, refs) ==
    [region |-> {"Todas"} \cup {Get1(Deref(doc, ref), "region") : ref \in ToSet(refs)},
     state |-> {"Todos", "running", "stopped", "terminated"},
     environment |-> {"Todos"} \cup DistinctValues(doc, refs, "environment"),
     owner |-> {"Todos"} \cup DistinctValues(doc, refs, "owner")]

\* if sel != sentinel: [i for i in refs if i.get(key) == sel]
\* (variant: non-matching instances are removed from the list while it is
\* iterated, which skips the neighbour of every removed one)
RECURSIVE RemoveWhileIterating(_, _, _, _, _)
RemoveWhileIterating(doc, refs, key, sel, idx) ==
    IF idx > Len(refs) THEN refs
    ELSE IF Get1(Deref(doc, refs[idx]), key) = sel
         THEN RemoveWhileIterating(doc, refs, key, sel, idx + 1)
         ELSE RemoveWhileIterating(doc,
                  SubSeq(refs, 1, idx - 1) \o SubSeq(refs, idx + 1, Len(refs)),
                  key, sel, idx + 1)
FilterByRemoving(doc, refs, key, sel, sentinel) ==
    IF sel # sentinel THEN RemoveWhileIterating(doc, refs, key, sel, 1) ELSE refs
FilterBy(doc, refs, key, sel, sentinel) ==
    IF sel # sentinel
    THEN SelectSeq(refs, LAMBDA ref : Get1(Deref(doc, ref), key) = sel)
    ELSE refs

\* lines 379-387
\* (variant: the owner constraint is never applied)
FilterWithoutOwner(doc, refs, sel) ==
    FilterBy(doc,
        FilterBy(doc,
            FilterBy(doc, refs, "region", sel.region, "Todas"),
            "state", sel.state, "Todos"),
        "environment", sel.environment, "Todos")
Filter(doc, refs, sel) ==
    FilterBy(doc,
        FilterBy(doc,
            FilterBy(doc,
                FilterBy(doc, refs, "region", sel.region, "Todas"),
                "state", sel.state, "Todos"),
            "environment", sel.environment, "Todos"),
        "owner", sel.owner, "Todos")

----------------------------------------------------------------------------
(* One run of main(), lines 74-490 *)

Init ==
    /\ pc = "start"
    /\ loaded = <<>>
    /\ data = <<>>
    /\ reported = <<>>
    /\ ri = 1
    /\ all_instances = <<>>
    /\ all_untagged = <<>>
    /\ all_stopped = <<>>
    /\ all_unused_volumes = <<>>
    /\ all_unused_eips = <<>>
    /\ metrics = EmptyDict
    /\ missing_tags_analysis = EmptyDict
    /\ views = EmptyDict
    /\ options = EmptyDict
    /\ selected = EmptyDict
    /\ filtered_instances = <<>>
    /\ summary = EmptyDict
    /\ df_regions = <<>>

\* lines 58-64: neither path exists
LoadDataUnavailable ==
    /\ pc = "start"
    /\ reported' = <<"error: Arquivo de dados nao encontrado",
                     "info: Execute o playbook finops_collect.yml">>
    /\ loaded' = <<>>
    /\ data' = <<>>
    /\ pc' = "check"
    /\ UNCHANGED analysis_vars

\* lines 66-72: json.load raises
LoadDataMalformed ==
    /\ pc = "start"
    /\ reported' = <<"error: Erro ao carregar dados">>
    /\ loaded' = <<>>
    /\ data' = <<>>
    /\ pc' = "check"
    /\ UNCHANGED analysis_vars

\* lines 66-69: json.load returns the document
LoadDataOk(docs) ==
    /\ pc = "start"
    /\ \E doc \in docs :
        /\ loaded' = <<doc>>
        /\ data' = <<doc>>
    /\ pc' = "check"
    /\ UNCHANGED <<reported, analysis_vars>>

\* lines 78-79: if data is None: return
\* (variant: main goes on when load_data returned None)
ReturnsOnNoneNever == FALSE
ReturnsOnNone == data = <<>>

MainReturn ==
    /\ pc = "check"
    /\ ReturnsOnNone
    /\ pc' = "done"
    /\ UNCHANGED <<loaded, data, reported, analysis_vars>>

MainContinue ==
    /\ pc = "check"
    /\ ~ReturnsOnNone
    /\ pc' = "normalize"
    /\ UNCHANGED <<loaded, data, reported, analysis_vars>>

\* the document main works on; {} stands in where data is None
Doc == IF data = <<>> THEN EmptyDict ELSE data[1]

\* lines 104-130, one iteration of the outer loop
NormalizeRegion ==
    /\ pc = "normalize"
    /\ ri <= Len(Regions(Doc))
    /\ LET region_data == Regions(Doc)[ri]
           region == RegionOf(region_data)
           tagged == TagEntities(TagEntities(TagEntities(TagEntities(TagEntities(
                         region_data, InstancesColl, region), UntaggedColl, region),
                         StoppedColl, region), VolumesColl, region), EipsColl, region)
       IN /\ data' = <<[Doc EXCEPT !["regions"][ri] = tagged]>>
          /\ all_instances' = AppendAll(all_instances, EntityRefs(ri, InstancesColl, region_data))
          /\ all_untagged' = AppendAll(all_untagged, EntityRefs(ri, UntaggedColl, region_data))
          /\ all_stopped' = AppendAll(all_stopped, EntityRefs(ri, StoppedColl, region_data))
          /\ all_unused_volumes' = AppendAll(all_unused_volumes, EntityRefs(ri, VolumesColl, region_data))
          /\ all_unused_eips' = AppendAll(all_unused_eips, EntityRefs(ri, EipsColl, region_data))
    /\ ri' = ri + 1
    /\ UNCHANGED <<pc, loaded, reported, df_regions, metrics, missing_tags_analysis, views,
                   options, selected, filtered_instances, summary>>

\* lines 135-151
Metrics ==
    /\ pc = "normalize"
    /\ ri > Len(Regions(Doc))
    /\ metrics' =
        [total_instances |-> Len(all_instances),
         running_instances |-> CountRunning(Doc, all_instances),
         stopped_instances |-> Len(all_stopped),
         untagged_count |-> Len(all_untagged),
         unused_volumes_count |-> Len(all_unused_volumes),
         unused_eips_count |-> Len(all_unused_eips),
         total_cost_risks |-> CostRisks(Len(all_stopped), Len(all_unused_volumes),
                                        Len(all_unused_eips))]
    /\ pc' = "tab1"
    /\ UNCHANGED <<loaded, data, reported, df_regions, ri, all_instances, all_untagged, all_stopped,
                   all_unused_volumes, all_unused_eips, missing_tags_analysis, views,
                   options, selected, filtered_instances, summary>>

\* lines 173-216: the region frame of tab 1 (the charts are not state)
Overview ==
    /\ pc = "tab1"
    /\ \E sorted \in SortValuesTotalDescending(RegionRows(Regions(Doc))) :
         df_regions' = sorted
    /\ pc' = "tab2"
    /\ UNCHANGED <<loaded, data, reported, ri, all_instances, all_untagged, all_stopped,
                   all_unused_volumes, all_unused_eips, metrics, missing_tags_analysis,
                   views, options, selected, filtered_instances, summary>>

\* lines 241-286, all_untagged non-empty
TaggingWarning ==
    /\ pc = "tab2"
    /\ all_untagged # <<>>
    /\ missing_tags_analysis' = MissingTagsAnalysis(Doc, all_instances)
    /\ views' = [tagging |->
                    [state |-> "warning",
                     counts |-> [b \in DOMAIN BucketTag |-> Len(missing_tags_analysis'[b])]]]
    /\ pc' = "tab3"
    /\ UNCHANGED <<loaded, data, reported, df_regions, ri, all_instances, all_untagged, all_stopped,
                   all_unused_volumes, all_unused_eips, metrics,
                   options, selected, filtered_instances, summary>>

\* lines 285-286, all_untagged empty
TaggingSuccess ==
    /\ pc = "tab2"
    /\ all_untagged = <<>>
    /\ views' = [tagging |-> [state |-> "success"]]
    /\ pc' = "tab3"
    /\ UNCHANGED <<loaded, data, reported, df_regions, ri, all_instances, all_untagged, all_stopped,
                   all_unused_volumes, all_unused_eips, metrics, missing_tags_analysis,
                   options, selected, filtered_instances, summary>>

\* lines 294-345
CostOptimization ==
    /\ pc = "tab3"
    /\ views' = [tagging |-> views.tagging,
                 stopped |-> CountView(all_stopped),
                 volumes |-> VolumesView(Doc, all_unused_volumes),
                 eips |-> CountView(all_unused_eips)]
    /\ pc' = "tab4"
    /\ UNCHANGED <<loaded, data, reported, df_regions, ri, all_instances, all_untagged, all_stopped,
                   all_unused_volumes, all_unused_eips, metrics, missing_tags_analysis,
                   options, selected, filtered_instances, summary>>

\* lines 355-387: each selectbox returns one of its options
InstancesTab ==
    /\ pc = "tab4"
    /\ options' = Options(Doc, all_instances)
    /\ \E r \in options'.region, s \in options'.state,
          e \in options'.environment, o \in options'.owner :
            selected' = [region |-> r, state |-> s, environment |-> e, owner |-> o]
    /\ filtered_instances' = Filter(Doc, all_instances, selected')
    /\ pc' = "tab6"
    /\ UNCHANGED <<loaded, data, reported, df_regions, ri, all_instances, all_untagged, all_stopped,
                   all_unused_volumes, all_unused_eips, metrics, missing_tags_analysis,
                   views, summary>>

\* lines 480-490
Summary ==
    /\ pc = "tab6"
    /\ summary' =
        [Total_de_Instancias |-> metrics.total_instances,
         Instancias_em_Execucao |-> metrics.running_instances,
         Instancias_Paradas |-> metrics.stopped_instances,
         Recursos_Nao_Taggeados |-> metrics.untagged_count,
         Volumes_Nao_Utilizados |-> Len(all_unused_volumes),
         EIPs_Nao_Utilizados |-> Len(all_unused_eips),
         Total_de_Regioes |-> Len(Regions(Doc))]
    /\ pc' = "done"
    /\ UNCHANGED <<loaded, data, reported, df_regions, ri, all_instances, all_untagged, all_stopped,
                   all_unused_volumes, all_unused_eips, metrics, missing_tags_analysis,
                   views, options, selected, filtered_instances>>

Run(docs) ==
    \/ LoadDataUnavailable
    \/ LoadDataMalformed
    \/ LoadDataOk(docs)
    \/ MainReturn
    \/ MainContinue
    \/ NormalizeRegion
    \/ Metrics
    \/ Overview
    \/ TaggingWarning
    \/ TaggingSuccess
    \/ CostOptimization
    \/ InstancesTab
    \/ Summary

----------------------------------------------------------------------------
(* The documents json.load is given: bounded families of Snapshot documents *)

MaxRegions == 2
MaxList == 2
MaxInstances == 3

\* {**d1, **d2}
Merge(d1, d2) ==
    [k \in (DOMAIN d1) \cup (DOMAIN d2) |-> IF k \in DOMAIN d2 THEN d2[k] ELSE d1[k]]

\* all lists over a set of values, of length 0..n
RECURSIVE ListsUpTo(_, _)
ListsUpTo(values, n) ==
    IF n = 0 THEN {<<>>}
    ELSE LET shorter == ListsUpTo(values, n - 1)
         IN shorter \cup {Append(l, v) : l \in {x \in shorter : Len(x) = n - 1}, v \in values}

\* the first n entities of a cyclic pool
Take(pool, n) == [j \in 1..n |-> pool[((j - 1) % Len(pool)) + 1]]

InstancePool ==
    <<[instance_id |-> "i-1", state |-> "running", environment |-> NA, owner |-> NA],
      [instance_id |-> "i-2", environment |-> NA, owner |-> NA, region |-> "stale"],
      [instance_id |-> "i-3", state |-> "stopped", environment |-> NA, owner |-> NA]>>

VolumePool ==
    <<[volume_id |-> "vol-1", size |-> 10],
      [volume_id |-> "vol-2", size |-> 20, region |-> "stale"],
      [volume_id |-> "vol-3"]>>

EipPool ==
    <<[allocation_id |-> "eipalloc-1"],
      [allocation_id |-> "eipalloc-2", region |-> "stale"]>>

RegionCodes == {"us-east-1", "sa-east-1"}

\* the instances-summary a region reports (the scenario of spec section 8)
InstancesSummary == [running |-> 3, stopped |-> 1, total |-> 4]

\* one key of a region dict: left out, present without its list, or present with it
CollPart(c, shape, list) ==
    LET base == IF c = InstancesColl THEN InstancesSummary ELSE EmptyDict
    IN CASE shape = "absent" -> EmptyDict
         [] shape = "nosub" -> [k \in {c.coll} |-> base]
         [] shape = "present" -> [k \in {c.coll} |-> Merge(base, [s \in {c.sub} |-> list])]

\* a region dict from the shape and the list of each of its five collections
RegionData(code_part, shape, list) ==
    Merge(code_part,
    Merge(CollPart(InstancesColl, shape[1], list[1]),
    Merge(CollPart(UntaggedColl, shape[2], list[2]),
    Merge(CollPart(StoppedColl, shape[3], list[3]),
    Merge(CollPart(VolumesColl, shape[4], list[4]),
          CollPart(EipsColl, shape[5], list[5]))))))

\* the five lists with the given lengths, filled from the pools
PoolLists(len) ==
    <<Take(InstancePool, len[1]), Take(InstancePool, len[2]), Take(InstancePool, len[3]),
      Take(VolumePool, len[4]), Take(EipPool, len[5])>>

AllPresent == [k \in 1..5 |-> "present"]

CodeParts == {EmptyDict} \cup {[region |-> c] : c \in RegionCodes}

\* regions for documents of several regions: no collection at all, or five
\* lists whose lengths differ from one kind to the next
StaggeredRegions ==
    {RegionData(cp, [k \in 1..5 |-> "absent"], [k \in 1..5 |-> <<>>]) : cp \in CodeParts}
    \cup
    {RegionData(cp, AllPresent, PoolLists([k \in 1..5 |-> (n + k) % (MaxList + 1)])) :
        cp \in CodeParts, n \in 0..MaxList}

MultiRegionDocs ==
    {EmptyDict} \cup {[regions |-> rs] : rs \in ListsUpTo(StaggeredRegions, MaxRegions)}

\* one region, every combination of list lengths
CountDocs ==
    {[account_id |-> "123456789012",
      regions |-> <<RegionData([region |-> "us-east-1"], AllPresent, PoolLists(len))>>] :
        len \in [1..5 -> 0..MaxList]}

\* one region, every combination of missing keys
PresenceDocs ==
    {[regions |-> <<RegionData([region |-> "us-east-1"], shape,
                               PoolLists([k \in 1..5 |-> 1]))>>] :
        shape \in [1..5 -> {"absent", "nosub", "present"}]}

VolumeValues == {[volume_id |-> "vol-a", size |-> 10], [volume_id |-> "vol-b", size |-> 20],
                 [volume_id |-> "vol-c"]}

\* one region, every list of unused volumes
VolumeDocs ==
    {[regions |-> <<RegionData([region |-> "us-east-1"],
                               [k \in 1..5 |-> IF k = 4 THEN "present" ELSE "absent"],
                               [k \in 1..5 |-> IF k = 4 THEN vs ELSE <<>>])>>] :
        vs \in ListsUpTo(VolumeValues, MaxList)}

\* the instances key of a region: left out, or a summary with or without all
\* of its numbers, consistent (3 + 1 = 4) or not (1 + 1 # 5)
SummaryParts ==
    {EmptyDict,
     [instances |-> [running |-> 2]],
     [instances |-> [running |-> 3, stopped |-> 1, total |-> 4]],
     [instances |-> [running |-> 1, stopped |-> 1, total |-> 5]]}

\* regions that carry nothing but a code and an instances-summary
SummaryDocs ==
    {[regions |-> rs] :
        rs \in ListsUpTo({Merge(cp, sp) : cp \in CodeParts, sp \in SummaryParts},
                         MaxRegions)}

NormDocs == MultiRegionDocs \cup CountDocs \cup PresenceDocs \cup VolumeDocs
            \cup SummaryDocs

NextNorm == Run(NormDocs)
SpecNorm == Init /\ [][NextNorm]_vars

----------------------------------------------------------------------------
(* Properties of the Normalizer, checked under SpecNorm *)

Colls == {InstancesColl, UntaggedColl, StoppedColl, VolumesColl, EipsColl}

\* the flat list main builds for one kind of entity
Flat(c) ==
    CASE c = InstancesColl -> all_instances
      [] c = UntaggedColl -> all_untagged
      [] c = StoppedColl -> all_stopped
      [] c = VolumesColl -> all_unused_volumes
      [] c = EipsColl -> all_unused_eips

\* the loop of lines 104-130 has ended
Normalized == data # <<>> /\ pc \in {"normalize", "tab1", "tab2", "tab3", "tab4", "tab6", "done"}
              /\ ri > Len(Regions(Doc))

\* the source list of one kind in one region of the document as loaded
SourceList(r, c) ==
    LET region_data == loaded[1]["regions"][r]
    IN IF c.coll \in DOMAIN region_data /\ c.sub \in DOMAIN region_data[c.coll]
       THEN region_data[c.coll][c.sub] ELSE <<>>

\* the entry designates an object nested in the Snapshot
IsNestedEntity(e) ==
    /\ e.r \in 1..Len(Regions(loaded[1]))
    /\ \E c \in Colls : c.coll = e.coll /\ c.sub = e.sub /\ e.i \in 1..Len(SourceList(e.r, c))

\* C1 as stated: after the Normalizer has built the five flat collections the
\* Snapshot's nested structure is exactly as loaded (no region field added or
\* overwritten) and no entry of a flat collection is an object nested in the
\* Snapshot.
C1_CopySemantics ==
    Normalized =>
        /\ data = loaded
        /\ \A c \in Colls : \A m \in 1..Len(Flat(c)) : ~IsNestedEntity(Flat(c)[m])

\* C3: every entity of each of the five flat collections carries, after
\* normalization, a region field equal to the region code of the RegionSnapshot
\* whose nested list it came from, or "unknown" when that RegionSnapshot has no
\* region code.
C3_BackReference ==
    Normalized =>
        \A c \in Colls : \A m \in 1..Len(Flat(c)) :
            LET e == Flat(c)[m]
                source == loaded[1]["regions"][e.r]
                entity == Deref(Doc, e)
            IN /\ "region" \in DOMAIN entity
               /\ entity["region"] =
                    (IF "region" \in DOMAIN source THEN source["region"] ELSE "unknown")

\* two regions with different codes each gave a volume, one of them lacking a
\* region code, and a loaded volume already had a region field
C3_Witness ==
    /\ Normalized
    /\ Len(Regions(Doc)) = 2
    /\ "region" \notin DOMAIN loaded[1]["regions"][1]
    /\ "region" \in DOMAIN loaded[1]["regions"][2]
    /\ \E m, n \in 1..Len(all_unused_volumes) :
        /\ all_unused_volumes[m].r = 1
        /\ all_unused_volumes[n].r = 2
        /\ "region" \in DOMAIN SourceList(2, VolumesColl)[all_unused_volumes[n].i]

\* the references to the entities of regions r.., in region order and then in
\* source-list order
RECURSIVE Concatenation(_, _)
Concatenation(r, c) ==
    IF r > Len(Regions(loaded[1])) THEN <<>>
    ELSE [j \in 1..Len(SourceList(r, c)) |->
            [r |-> r, coll |-> c.coll, sub |-> c.sub, i |-> j]]
         \o Concatenation(r + 1, c)

RECURSIVE SumOfLengths(_, _)
SumOfLengths(r, c) ==
    IF r > Len(Regions(loaded[1])) THEN 0
    ELSE Len(SourceList(r, c)) + SumOfLengths(r + 1, c)

\* C4: each flat collection is the concatenation, in Snapshot region order, of
\* each region's source list in source-list order; its length is the sum of the
\* per-region lengths, no entity is dropped or duplicated, and a region lacking
\* a collection contributes no entity.
C4_LosslessOrdered ==
    Normalized =>
        \A c \in Colls :
            /\ Flat(c) = Concatenation(1, c)
            /\ Len(Flat(c)) = SumOfLengths(1, c)
            /\ \A m, n \in 1..Len(Flat(c)) : m # n => Flat(c)[m] # Flat(c)[n]

\* two regions gave instances, the first two of them and the second one, and
\* only the second gave untagged instances
C4_Witness ==
    /\ Normalized
    /\ pc = "done"
    /\ Len(Regions(Doc)) = 2
    /\ Len(SourceList(1, InstancesColl)) = 2
    /\ Len(SourceList(2, InstancesColl)) = 1
    /\ Len(all_instances) = 3
    /\ Len(SourceList(1, UntaggedColl)) = 0
    /\ Len(all_untagged) = 2

----------------------------------------------------------------------------
(* Properties of the metrics, the cost view and the summary, under SpecNorm *)

\* tab 3 has been rendered
CostRendered == data # <<>> /\ pc \in {"tab4", "tab6", "done"}

\* the sizes of a list of volumes as loaded, a missing size counting 0
RECURSIVE SizeSum(_)
SizeSum(volumes) ==
    IF volumes = <<>> THEN 0
    ELSE (IF "size" \in DOMAIN Head(volumes) THEN Head(volumes)["size"] ELSE 0)
         + SizeSum(Tail(volumes))

RECURSIVE UnusedVolumeTotalGB(_)
UnusedVolumeTotalGB(r) ==
    IF r > Len(Regions(loaded[1])) THEN 0
    ELSE SizeSum(SourceList(r, VolumesColl)) + UnusedVolumeTotalGB(r + 1)

\* a sub-metric is clear iff its count is zero, and a warning carries the count
GatedBy(view, count) ==
    /\ view.state = (IF count = 0 THEN "success" ELSE "warning")
    /\ view.state = "warning" => view.count = count

\* C8: stoppedCount = |allStopped|, unusedVolumeCount = |allUnusedVolumes|,
\* unusedEIPCount = |allUnusedEIPs|, unusedVolumeTotalGB = the sum of size over
\* allUnusedVolumes with a missing size counted as 0, totalCostRisk = the sum of
\* the three counts, and each sub-metric is clear iff its count is zero and a
\* warning otherwise.
C8_CostRisk ==
    CostRendered =>
        /\ metrics.stopped_instances = Len(all_stopped)
        /\ metrics.stopped_instances = SumOfLengths(1, StoppedColl)
        /\ metrics.unused_volumes_count = Len(all_unused_volumes)
        /\ metrics.unused_volumes_count = SumOfLengths(1, VolumesColl)
        /\ metrics.unused_eips_count = Len(all_unused_eips)
        /\ metrics.unused_eips_count = SumOfLengths(1, EipsColl)
        /\ metrics.total_cost_risks =
             Len(all_stopped) + Len(all_unused_volumes) + Len(all_unused_eips)
        /\ GatedBy(views.stopped, Len(all_stopped))
        /\ GatedBy(views.volumes, Len(all_unused_volumes))
        /\ GatedBy(views.eips, Len(all_unused_eips))
        /\ views.volumes.state = "warning" =>
             views.volumes.total_size = UnusedVolumeTotalGB(1)
        /\ views.volumes.state = "success" => UnusedVolumeTotalGB(1) = 0

\* two unused volumes of 10 and 20 GB: count 2, total 30, the other two clear
C8_Witness ==
    /\ CostRendered
    /\ Len(Regions(Doc)) = 1
    /\ SourceList(1, VolumesColl) = <<[volume_id |-> "vol-a", size |-> 10],
                                      [volume_id |-> "vol-b", size |-> 20]>>
    /\ views.volumes = [state |-> "warning", count |-> 2, total_size |-> 30]
    /\ views.stopped.state = "success"
    /\ views.eips.state = "success"
    /\ metrics.total_cost_risks = 2

\* the sum of the total fields the regions report in their instances-summary
RECURSIVE ReportedTotal(_)
ReportedTotal(r) ==
    IF r > Len(Regions(loaded[1])) THEN 0
    ELSE Get(Get(loaded[1]["regions"][r], "instances", EmptyDict), "total", 0)
         + ReportedTotal(r + 1)

\* the entries of all_instances whose state, as loaded, is "running"
RunningEntries ==
    {m \in 1..Len(all_instances) :
        LET e == all_instances[m]
            instance == SourceList(e.r, InstancesColl)[e.i]
        IN "state" \in DOMAIN instance /\ instance["state"] = "running"}

\* C9: the summary's total is the number of entries of allInstances (never the
\* sum of the per-region total fields), running is the number of allInstances
\* entries with state "running", stopped = |allStopped|, untagged =
\* |allUntagged|, unused volumes = |allUnusedVolumes|, unused EIPs =
\* |allUnusedEIPs| and regions = the number of RegionSnapshots.
C9_ExecutiveSummary ==
    (data # <<>> /\ pc = "done") =>
        /\ summary.Total_de_Instancias = Len(all_instances)
        /\ summary.Total_de_Instancias = SumOfLengths(1, InstancesColl)
        /\ summary.Instancias_em_Execucao = Cardinality(RunningEntries)
        /\ summary.Instancias_Paradas = Len(all_stopped)
        /\ summary.Recursos_Nao_Taggeados = Len(all_untagged)
        /\ summary.Volumes_Nao_Utilizados = Len(all_unused_volumes)
        /\ summary.EIPs_Nao_Utilizados = Len(all_unused_eips)
        /\ summary.Total_de_Regioes = Len(Regions(loaded[1]))

\* two regions report a total of 4 each while three instances are listed, one
\* of them neither running nor stopped
C9_Witness ==
    /\ data # <<>>
    /\ pc = "done"
    /\ ReportedTotal(1) = 8
    /\ summary.Total_de_Instancias = 3
    /\ summary.Instancias_em_Execucao = 2
    /\ summary.Total_de_Regioes = 2
    /\ summary.Instancias_Paradas # summary.Recursos_Nao_Taggeados

----------------------------------------------------------------------------
(* Properties of the RegionAggregator, checked under SpecNorm *)

\* tab 1 has been rendered
OverviewRendered == data # <<>> /\ pc \in {"tab2", "tab3", "tab4", "tab6", "done"}

\* the region codes of the documents in ascending string order
CodesAscending == <<"sa-east-1", "unknown", "us-east-1">>

CodeRank(code) == CHOOSE j \in 1..Len(CodesAscending) : CodesAscending[j] = code

\* the row a RegionSnapshot of the loaded document is to give
RawRow(r) ==
    LET region_data == loaded[1]["regions"][r]
        reported_numbers ==
            IF "instances" \in DOMAIN region_data THEN region_data["instances"]
            ELSE EmptyDict
        Number(k) == IF k \in DOMAIN reported_numbers THEN reported_numbers[k] ELSE 0
    IN [Regiao |-> IF "region" \in DOMAIN region_data THEN region_data["region"]
                   ELSE "unknown",
        Em_Execucao |-> Number("running"),
        Paradas |-> Number("stopped"),
        Total |-> Number("total")]

\* C11 as stated: the per-region distribution has one (running, stopped, total)
\* row per region carrying the raw instances-summary numbers (missing ones as
\* 0), and the rows are ordered descending by total, regions of equal total by
\* region code ascending, whatever the regions' order in the Snapshot.
C11_RegionDistribution ==
    OverviewRendered =>
        /\ Len(df_regions) = Len(Regions(loaded[1]))
        /\ \A r \in 1..Len(Regions(loaded[1])) :
             \E j \in 1..Len(df_regions) : df_regions[j] = RawRow(r)
        /\ \A j \in 1..(Len(df_regions) - 1) :
             \/ df_regions[j].Total > df_regions[j + 1].Total
             \/ /\ df_regions[j].Total = df_regions[j + 1].Total
                /\ CodeRank(df_regions[j].Regiao) < CodeRank(df_regions[j + 1].Regiao)

----------------------------------------------------------------------------
(* Load failures, under SpecNorm *)

\* no step after line 79 has assigned anything
AnalysisUntouched ==
    /\ ri = 1
    /\ all_instances = <<>> /\ all_untagged = <<>> /\ all_stopped = <<>>
    /\ all_unused_volumes = <<>> /\ all_unused_eips = <<>>
    /\ metrics = EmptyDict /\ missing_tags_analysis = EmptyDict /\ views = EmptyDict
    /\ options = EmptyDict /\ selected = EmptyDict /\ filtered_instances = <<>>
    /\ summary = EmptyDict /\ df_regions = <<>>

\* load_data has returned None
LoadFailed == pc # "start" /\ data = <<>>

\* C10: when the document cannot be located or parsed the failure is reported
\* and the run ends with no analysis step executed (no flat collection, metric,
\* view, filter or summary); every analysis step runs only after a successful
\* load.
C10_LoadFailureSkipsAnalysis ==
    /\ LoadFailed =>
        /\ reported # <<>>
        /\ pc \in {"check", "done"}
        /\ AnalysisUntouched
    /\ (pc \in {"normalize", "tab1", "tab2", "tab3", "tab4", "tab6"} \/ ~AnalysisUntouched) =>
        /\ data # <<>>
        /\ reported = <<>>

\* the run has ended after a reported load failure
C10_Witness ==
    /\ pc = "done"
    /\ data = <<>>
    /\ reported = <<"error: Erro ao carregar dados">>
    /\ AnalysisUntouched

----------------------------------------------------------------------------
(* Documents whose instances differ in the filter dimensions and in their tags *)

\* the environment and owner keys an instance carries
FilterTags ==
    {EmptyDict,
     [environment |-> NA, owner |-> "alice"],
     [environment |-> "prod", owner |-> NA]}

FilterInstances ==
    {Merge([instance_id |-> "i-f", state |-> st], t) :
        st \in {"running", "stopped"}, t \in FilterTags}

OnlyInstances == [k \in 1..5 |-> IF k = 1 THEN "present" ELSE "absent"]

\* two regions sharing one list of instances, cut at every position
FilterDocs ==
    {[regions |->
        <<RegionData([region |-> "us-east-1"], OnlyInstances,
                     [k \in 1..5 |-> IF k = 1 THEN SubSeq(p[1], 1, p[2]) ELSE <<>>]),
          RegionData([region |-> "sa-east-1"], OnlyInstances,
                     [k \in 1..5 |-> IF k = 1 THEN SubSeq(p[1], p[2] + 1, Len(p[1]))
                                     ELSE <<>>])>>] :
        p \in {q \in ListsUpTo(FilterInstances, MaxInstances) \X (0..MaxInstances) :
                  q[2] <= Len(q[1])}}

\* the tags mapping of an instance, or no tags key at all
TagInstances ==
    {[instance_id |-> "i-t"],
     [instance_id |-> "i-t", tags |-> EmptyDict],
     [instance_id |-> "i-t", tags |-> [Name |-> "x", owner |-> NA]],
     [instance_id |-> "i-t", tags |-> [Name |-> NA, CostCenter |-> "cc-1"]],
     [instance_id |-> "i-t", tags |-> [owner |-> "alice", Environment |-> NA]],
     [instance_id |-> "i-t", tags |-> [Name |-> "x", owner |-> "alice",
                                       CostCenter |-> "cc-1", Environment |-> "prod"]]}

\* one region, every list of tagged instances, with and without a producer's
\* list of untagged instances
TagDocs ==
    {[regions |->
        <<RegionData([region |-> "us-east-1"],
                     [k \in 1..5 |-> IF k <= 2 THEN "present" ELSE "absent"],
                     [k \in 1..5 |-> IF k = 1 THEN l ELSE IF k = 2 THEN u ELSE <<>>])>>] :
        l \in ListsUpTo(TagInstances, MaxInstances),
        u \in {<<>>, <<[instance_id |-> "i-u", name |-> NA]>>}}

InstanceDocs == FilterDocs \cup TagDocs

NextInstances == Run(InstanceDocs)
SpecInstances == Init /\ [][NextInstances]_vars

----------------------------------------------------------------------------
(* Properties of the FilterEngine, checked under SpecInstances *)

\* tab 4 has been rendered
Filtered == data # <<>> /\ pc \in {"tab6", "done"}

\* the instance, as loaded, behind an entry of all_instances
LoadedInstance(e) == SourceList(e.r, InstancesColl)[e.i]

\* the values some instance of all_instances carries under a key
CarriedValues(key) ==
    {LoadedInstance(all_instances[m])[key] :
        m \in {n \in 1..Len(all_instances) :
                 key \in DOMAIN LoadedInstance(all_instances[n])}}

\* the value a constraint on a dimension is compared with: the field of the
\* instance, the region of its RegionSnapshot, null when the key is absent
FieldOf(e, dim) ==
    IF dim = "region" THEN
        (IF "region" \in DOMAIN loaded[1]["regions"][e.r]
         THEN loaded[1]["regions"][e.r]["region"] ELSE "unknown")
    ELSE IF dim \in DOMAIN LoadedInstance(e) THEN LoadedInstance(e)[dim] ELSE None

MatchAll == [region |-> "Todas", state |-> "Todos", environment |-> "Todos",
             owner |-> "Todos"]

\* the entry satisfies every active constraint of a selection
Satisfies(e, sel) ==
    \A dim \in DOMAIN MatchAll : sel[dim] = MatchAll[dim] \/ FieldOf(e, dim) = sel[dim]

\* C2 as stated: the environment option set (and likewise the owner option
\* set) is the match-all sentinel plus exactly the distinct values some
\* instance of allInstances carries for that field, excluding "N/A"; an
\* instance with no such key contributes no option (no null entry), and is
\* still returned whenever that constraint is match-all and its other
\* constraints are satisfied.
C2_OptionSets ==
    Filtered =>
        /\ options.environment = {"Todos"} \cup (CarriedValues("environment") \ {NA})
        /\ options.owner = {"Todos"} \cup (CarriedValues("owner") \ {NA})
        /\ None \notin options.environment
        /\ None \notin options.owner
        /\ \A m \in 1..Len(all_instances) :
            LET e == all_instances[m]
            IN ("environment" \notin DOMAIN LoadedInstance(e)
                /\ selected.environment = "Todos"
                /\ Satisfies(e, selected))
               => \E j \in 1..Len(filtered_instances) : filtered_instances[j] = e

\* the positions of all_instances a selection keeps
Kept(sel) == {m \in 1..Len(all_instances) : Satisfies(all_instances[m], sel)}

Position(e) == CHOOSE m \in 1..Len(all_instances) : all_instances[m] = e

\* C5: the filter result is exactly the subsequence of the collection, in its
\* relative order, of the instances satisfying every active equality
\* constraint; with all four dimensions at match-all it is the collection.
C5_FilterSemantics ==
    Filtered =>
        /\ Len(filtered_instances) = Cardinality(Kept(selected))
        /\ {Position(filtered_instances[j]) : j \in 1..Len(filtered_instances)}
             = Kept(selected)
        /\ \A j, k \in 1..Len(filtered_instances) :
             j < k => Position(filtered_instances[j]) < Position(filtered_instances[k])
        /\ \A j \in 1..Len(filtered_instances) :
             \E m \in 1..Len(all_instances) : all_instances[m] = filtered_instances[j]
        /\ selected = MatchAll => filtered_instances = all_instances

\* three constraints are active and keep the first and the last of three
\* instances
C5_Witness ==
    /\ Filtered
    /\ Len(all_instances) = 3
    /\ selected.region # "Todas"
    /\ selected.state = "running"
    /\ selected.environment = "prod"
    /\ selected.owner = "Todos"
    /\ filtered_instances = <<all_instances[1], all_instances[3]>>

\* C6: filtering the result again with the same selection gives the same result.
C6_FilterIdempotent ==
    Filtered => Filter(Doc, filtered_instances, selected) = filtered_instances

\* a constraint removed two neighbours and kept one instance
C6_Witness ==
    /\ Filtered
    /\ Len(all_instances) = 3
    /\ selected.owner = "alice"
    /\ filtered_instances = <<all_instances[3]>>

----------------------------------------------------------------------------
(* Properties of the TaggingComplianceAnalyzer, checked under SpecInstances *)

\* tab 2 has been rendered
TaggingRendered == data # <<>> /\ pc \in {"tab3", "tab4", "tab6", "done"}

\* the instance, as loaded, lacks the tag or carries "N/A" for it
LacksTag(e, tag) ==
    LET instance == LoadedInstance(e)
    IN \/ "tags" \notin DOMAIN instance
       \/ tag \notin DOMAIN instance["tags"]
       \/ instance["tags"][tag] = NA

\* C7 as stated: for every Snapshot, also one whose allUntagged is empty, every
\* instance of allInstances appears exactly once in a mandatory tag's missing
\* bucket if the key is absent from its tags or its value is "N/A", and not at
\* all otherwise, and the reported count of the bucket is the number of such
\* instances.
C7_MissingTagBuckets ==
    TaggingRendered =>
        \A b \in DOMAIN BucketTag :
            /\ b \in DOMAIN missing_tags_analysis
            /\ \A m \in 1..Len(all_instances) :
                Cardinality({j \in 1..Len(missing_tags_analysis[b]) :
                               missing_tags_analysis[b][j] = all_instances[m]})
                  = (IF LacksTag(all_instances[m], BucketTag[b]) THEN 1 ELSE 0)
            /\ "counts" \in DOMAIN views.tagging
            /\ views.tagging.counts[b] =
                 Cardinality({m \in 1..Len(all_instances) :
                                LacksTag(all_instances[m], BucketTag[b])})

----------------------------------------------------------------------------

====
